---- MODULE Spec2Model ----
(***************************************************************************)
(* A model of pdproject.py: the sentence splitter, the Document and Corpus *)
(* containers and the corpus builder (compile_documents, compile_corpus).  *)
(*                                                                         *)
(* A Python str is modelled as a sequence of one-character strings, so the *)
(* empty str is << >>.  A Python list is a sequence.  Document objects     *)
(* live in a heap and are referred to by their index in it, which models   *)
(* object identity.                                                        *)
(***************************************************************************)
EXTENDS Integers, Sequences, FiniteSets, TLC

VARIABLES
    pc,         \* position of the running function
    string,     \* split_sentences: the argument
    sentences,  \* split_sentences: the returned list
    heap,       \* the Document objects constructed so far
    documents,  \* Corpus.documents: key -> Document
    call,       \* the last call made, with the receiver, key and argument
                \* of a method of Document or Corpus
    raised,     \* the exception the last call or the scan ended with
    returned,   \* the value the last call or the scan returned
    added,      \* the successful add_document calls on the Corpus, in order
    listing,    \* compile_documents: what os.listdir returned
    idx,        \* compile_documents: position of the loop in the listing
    handles,    \* compile_documents: the files currently open
    opened,     \* compile_documents: the positions of the files opened so far
    doclist     \* compile_documents: the local list `documents`

vars == <<pc, string, sentences, heap, documents, call, raised, returned,
          added, listing, idx, handles, opened, doclist>>

----------------------------------------------------------------------------
(* Bounds *)

MaxLen == 3

MaxArgLen == 2

MaxStored == 3

MaxDocs == 2

MaxCalls == 3

MaxEntries == 3

----------------------------------------------------------------------------
(* Characters and strings *)

Punct == {".", "?", "!"}

Whitespace == {" ", "\n"}

Alphabet == {"a"} \cup Punct \cup Whitespace

RECURSIVE StringsOfLen(_, _)
StringsOfLen(chars, n) ==
    IF n = 0 THEN {<< >>}
    ELSE {Append(s, c) : s \in StringsOfLen(chars, n - 1), c \in chars}

StringsUpTo(chars, n) == UNION {StringsOfLen(chars, k) : k \in 0..n}

Last(seq) == seq[Len(seq)]

Front(seq) == SubSeq(seq, 1, Len(seq) - 1)

----------------------------------------------------------------------------
(* split_sentences *)

\* The end of the match of [.?!]\s* that starts at position i: the
\* punctuation mark and the greedy whitespace run after it.
RECURSIVE MatchEnd(_, _)
MatchEnd(s, i) ==
    IF i + 1 <= Len(s) /\ s[i + 1] \in Whitespace
    THEN MatchEnd(s, i + 1)
    ELSE i

\* re.split: scan from position i; start is where the current fragment began.
RECURSIVE re_split_from(_, _, _)
re_split_from(s, i, start) ==
    IF i > Len(s) THEN <<SubSeq(s, start, Len(s))>>
    ELSE IF s[i] \in Punct
         THEN <<SubSeq(s, start, i - 1)>>
              \o re_split_from(s, MatchEnd(s, i) + 1, MatchEnd(s, i) + 1)
         ELSE re_split_from(s, i + 1, start)

re_split(s) == re_split_from(s, 1, 1)

\* split_sentences with the last fragment dropped unconditionally.
split_sentences_always_drop(s) == Front(re_split(s))

\* split_sentences without the drop of an empty last fragment.
split_sentences_keep_all(s) == re_split(s)

split_sentences(s) ==
    LET frags == re_split(s)
    IN  IF Last(frags) # << >> THEN frags ELSE Front(frags)

----------------------------------------------------------------------------
(* Python values: a type tag and a value, which is always a sequence *)

PyNone == [type |-> "NoneType", val |-> << >>]

PyStr(s) == [type |-> "str", val |-> s]

PyList(l) == [type |-> "list", val |-> l]

PyTuple(l) == [type |-> "tuple", val |-> l]

\* A reference to the Document at position id of the heap.
PyDoc(id) == [type |-> "Document", val |-> <<id>>]

NoValue == [type |-> "nothing", val |-> << >>]

NoCall == [op |-> "none", self |-> 0, key |-> << >>, arg |-> NoValue]

EmptyDict == [k \in {} |-> 0]

splitVars == <<string, sentences>>

scanVars == <<listing, idx, handles, opened, doclist>>

apiVars == <<call, raised, returned>>

SplitIdle == string = << >> /\ sentences = << >>

ScanIdle ==
    /\ listing = << >>
    /\ idx = 0
    /\ handles = {}
    /\ opened = << >>
    /\ doclist = << >>

ApiIdle == call = NoCall /\ raised = "none" /\ returned = NoValue

CorpusIdle == documents = EmptyDict /\ added = << >>

InitSplit ==
    /\ pc = "split_ready"
    /\ string \in StringsUpTo(Alphabet, MaxLen)
    /\ sentences = << >>
    /\ heap = << >>
    /\ CorpusIdle
    /\ ApiIdle
    /\ ScanIdle

SplitSentences ==
    /\ pc = "split_ready"
    /\ sentences' = split_sentences(string)
    /\ pc' = "split_done"
    /\ UNCHANGED <<string, heap, documents, added, apiVars, scanVars>>

NextSplit == SplitSentences

SpecSplit == InitSplit /\ [][NextSplit]_vars

----------------------------------------------------------------------------
(* Document *)

FileA == <<"a", ".", "t", "x", "t">>

FileB == <<"B", ".", "T", "x", "t">>

\* Document.__init__
Document(filename) ==
    [filename |-> filename, paragraphs |-> << >>, sentences |-> << >>]

\* Document.add_paragraphs: the Document after the call and the exception.
add_paragraphs(self, paragraphs) ==
    IF paragraphs.type = "list"
    THEN [self |-> [self EXCEPT !.paragraphs = @ \o paragraphs.val],
          raised |-> "none"]
    ELSE [self |-> self, raised |-> "TypeError"]

\* add_sentences extending the paragraphs list instead.
add_sentences_into_paragraphs(self, sents) ==
    IF sents.type = "list"
    THEN [self |-> [self EXCEPT !.paragraphs = @ \o sents.val],
          raised |-> "none"]
    ELSE [self |-> self, raised |-> "TypeError"]

\* Document.add_sentences: the Document after the call and the exception.
add_sentences(self, sents) ==
    IF sents.type = "list"
    THEN [self |-> [self EXCEPT !.sentences = @ \o sents.val],
          raised |-> "none"]
    ELSE [self |-> self, raised |-> "TypeError"]

\* The strings a caller puts in the lists it passes.
ListElems == {<< >>, <<"a">>}

ListArgs == {PyList(l) : l \in StringsUpTo(ListElems, MaxArgLen)}

NonListArgs == {PyNone, PyStr(<<"a">>), PyTuple(<< <<"a">> >>)}

InitDocument ==
    /\ pc = "api"
    /\ \E filename \in {FileA, FileB} : heap = <<Document(filename)>>
    /\ SplitIdle
    /\ CorpusIdle
    /\ ApiIdle
    /\ ScanIdle

\* A caller's doc.add_paragraphs(arg).
CallAddParagraphs ==
    \E d \in 1..Len(heap), arg \in ListArgs \cup NonListArgs :
        LET res == add_paragraphs(heap[d], arg)
        IN  /\ pc = "api"
            /\ arg.type = "list"
                => Len(heap[d].paragraphs) + Len(arg.val) <= MaxStored
            /\ heap' = [heap EXCEPT ![d] = res.self]
            /\ raised' = res.raised
            /\ returned' = IF res.raised = "none" THEN PyNone ELSE NoValue
            /\ call' = [op |-> "add_paragraphs", self |-> d, key |-> << >>,
                        arg |-> arg]
            /\ UNCHANGED <<pc, documents, added, splitVars, scanVars>>

\* A caller's doc.add_sentences(arg).
CallAddSentences ==
    \E d \in 1..Len(heap), arg \in ListArgs \cup NonListArgs :
        LET res == add_sentences(heap[d], arg)
        IN  /\ pc = "api"
            /\ arg.type = "list"
                => Len(heap[d].sentences) + Len(arg.val) <= MaxStored
            /\ heap' = [heap EXCEPT ![d] = res.self]
            /\ raised' = res.raised
            /\ returned' = IF res.raised = "none" THEN PyNone ELSE NoValue
            /\ call' = [op |-> "add_sentences", self |-> d, key |-> << >>,
                        arg |-> arg]
            /\ UNCHANGED <<pc, documents, added, splitVars, scanVars>>

NextDocument == CallAddParagraphs \/ CallAddSentences

SpecDocument == InitDocument /\ [][NextDocument]_vars

----------------------------------------------------------------------------
(* Corpus *)

\* self.documents[key] = value on a dict
DictSet(dict, key, value) ==
    [k \in DOMAIN dict \cup {key} |-> IF k = key THEN value ELSE dict[k]]

\* add_document that keeps the Document already stored under the key.
add_document_keep_first(self, filename, document) ==
    IF document.type = "Document"
    THEN [self |-> IF filename \in DOMAIN self THEN self
                   ELSE DictSet(self, filename, document.val[1]),
          raised |-> "none"]
    ELSE [self |-> self, raised |-> "TypeError"]

\* add_document that checks the type after the store, and undoes the store
\* by removing the key.
add_document_check_late(self, filename, document) ==
    IF document.type = "Document"
    THEN [self |-> DictSet(self, filename, document.val[1]),
          raised |-> "none"]
    ELSE [self |-> [k \in DOMAIN self \ {filename} |-> self[k]],
          raised |-> "TypeError"]

\* Corpus.add_document: the documents dict after the call and the exception.
add_document(self, filename, document) ==
    IF document.type = "Document"
    THEN [self |-> DictSet(self, filename, document.val[1]),
          raised |-> "none"]
    ELSE [self |-> self, raised |-> "TypeError"]

\* Corpus.get_document: the value returned and the exception.
get_document(self, filename) ==
    IF filename \in DOMAIN self
    THEN [returned |-> PyDoc(self[filename]), raised |-> "none"]
    ELSE [returned |-> NoValue, raised |-> "KeyError"]

\* The loop of compile_corpus from position i on: the dict of the new
\* Corpus, the successful add_document calls and the exception.  Reading
\* .filename of an element that is not a Document raises AttributeError.
RECURSIVE compile_corpus_from(_, _, _, _, _)
compile_corpus_from(objects, docs, i, self, log) ==
    IF i > Len(docs) THEN [self |-> self, log |-> log, raised |-> "none"]
    ELSE IF docs[i].type # "Document"
         THEN [self |-> self, log |-> log, raised |-> "AttributeError"]
         ELSE LET filename == objects[docs[i].val[1]].filename
                  res == add_document(self, filename, docs[i])
              IN  IF res.raised # "none"
                  THEN [self |-> self, log |-> log, raised |-> res.raised]
                  ELSE compile_corpus_from(objects, docs, i + 1, res.self,
                           Append(log, <<filename, docs[i].val[1]>>))

compile_corpus(objects, docs) ==
    compile_corpus_from(objects, docs, 1, EmptyDict, << >>)

Keys == {FileA, FileB}

NonDocuments == {PyNone, PyStr(FileA), PyList(<< >>)}

InitCorpus ==
    /\ pc = "api"
    /\ heap = << >>
    /\ SplitIdle
    /\ CorpusIdle
    /\ ApiIdle
    /\ ScanIdle

\* A caller's Document(filename).
NewDocument ==
    \E filename \in Keys :
        /\ pc = "api"
        /\ Len(heap) < MaxDocs
        /\ heap' = Append(heap, Document(filename))
        /\ call' = [op |-> "Document", self |-> Len(heap) + 1,
                    key |-> filename, arg |-> NoValue]
        /\ raised' = "none"
        /\ returned' = PyDoc(Len(heap) + 1)
        /\ UNCHANGED <<pc, documents, added, splitVars, scanVars>>

\* A caller's corpus.add_document(key, x).
CallAddDocument ==
    \E key \in Keys,
       x \in {PyDoc(d) : d \in 1..Len(heap)} \cup NonDocuments :
        LET res == add_document(documents, key, x)
        IN  /\ pc = "api"
            /\ x.type = "Document" => Len(added) < MaxCalls
            /\ documents' = res.self
            /\ raised' = res.raised
            /\ returned' = IF res.raised = "none" THEN PyNone ELSE NoValue
            /\ added' = IF res.raised = "none"
                        THEN Append(added, <<key, x.val[1]>>)
                        ELSE added
            /\ call' = [op |-> "add_document", self |-> 0, key |-> key,
                        arg |-> x]
            /\ UNCHANGED <<pc, heap, splitVars, scanVars>>

\* A caller's corpus.get_document(key).
CallGetDocument ==
    \E key \in Keys :
        LET res == get_document(documents, key)
        IN  /\ pc = "api"
            /\ raised' = res.raised
            /\ returned' = res.returned
            /\ call' = [op |-> "get_document", self |-> 0, key |-> key,
                        arg |-> NoValue]
            /\ UNCHANGED <<pc, heap, documents, added, splitVars, scanVars>>

\* The lists compile_corpus is called with: a run of the Documents
\* constructed so far, in construction order as compile_documents builds
\* it, possibly followed by a value that is not a Document.
DocumentLists ==
    LET runs == {[k \in 1..(j - i + 1) |-> PyDoc(i + k - 1)] :
                     i \in 1..(Len(heap) + 1), j \in 0..Len(heap)}
    IN  runs \cup {Append(l, PyNone) : l \in runs}

\* A caller's corpus = compile_corpus(docs): the caller holds the new Corpus
\* when the call returns, and keeps the old one when it raises.
CallCompileCorpus ==
    \E docs \in DocumentLists :
        LET res == compile_corpus(heap, docs)
        IN  /\ pc = "api"
            /\ raised' = res.raised
            /\ IF res.raised = "none"
               THEN /\ documents' = res.self
                    /\ added' = res.log
                    /\ returned' = [type |-> "Corpus", val |-> << >>]
               ELSE /\ UNCHANGED <<documents, added>>
                    /\ returned' = NoValue
            /\ call' = [op |-> "compile_corpus", self |-> 0, key |-> << >>,
                        arg |-> NoValue]
            /\ UNCHANGED <<pc, heap, splitVars, scanVars>>

NextCorpus ==
    \/ NewDocument
    \/ CallAddDocument
    \/ CallGetDocument
    \/ CallCompileCorpus

SpecCorpus == InitCorpus /\ [][NextCorpus]_vars

----------------------------------------------------------------------------
(* compile_documents and the main block *)

FileMd == <<"n", ".", "m", "d">>

FileNoDot == <<"t", "x", "t">>

FileC == <<"c", ".", "T", "X", "T">>

\* str.lower on one character, for the letters that occur in the file names
lower_char(c) ==
    CASE c = "B" -> "b"
      [] c = "T" -> "t"
      [] c = "X" -> "x"
      [] OTHER -> c

\* file.lower() left out.
lower_missing(s) == s

\* str.lower
lower(s) == [i \in 1..Len(s) |-> lower_char(s[i])]

\* str.endswith
endswith(s, suffix) ==
    /\ Len(s) >= Len(suffix)
    /\ SubSeq(s, Len(s) - Len(suffix) + 1, Len(s)) = suffix

\* the test of line 142
is_txt(file) == endswith(lower(file), <<".", "t", "x", "t">>)

\* str.splitlines: scan from position i; start is where the current line
\* began.  A line break at the very end starts no new line.
RECURSIVE splitlines_from(_, _, _)
splitlines_from(s, i, start) ==
    IF i > Len(s)
    THEN IF start <= Len(s) THEN <<SubSeq(s, start, Len(s))>> ELSE << >>
    ELSE IF s[i] = "\n"
         THEN <<SubSeq(s, start, i - 1)>> \o splitlines_from(s, i + 1, i + 1)
         ELSE splitlines_from(s, i + 1, start)

splitlines(s) == splitlines_from(s, 1, 1)

\* list(filter(None, l)) on a list of strings
filter_none(l) == SelectSeq(l, LAMBDA x : x # << >>)

\* The body of the with statement once f.read() has returned raw_text:
\* the Document that is appended to the list.
parse_document(file, raw_text) ==
    LET doc == Document(file)
        withParagraphs ==
            add_paragraphs(doc, PyList(filter_none(splitlines(raw_text)))).self
    IN  add_sentences(withParagraphs, PyList(split_sentences(raw_text))).self

\* Leaving the with statement without closing the file.
with_exit_leak(open_files, f) == open_files

\* Leaving the with statement, normally or by an exception, closes the file.
with_exit(open_files, f) == open_files \ {f}

EntryNames == {FileA, FileB, FileC, FileMd, FileNoDot}

Entries == [name : EntryNames, isdir : BOOLEAN]

\* What a directory can hold: entries with distinct names, in the order
\* os.listdir gives them.
Listings ==
    {l \in StringsUpTo(Entries, MaxEntries) :
        \A i, j \in 1..Len(l) : l[i].name = l[j].name => i = j}

\* The texts the files hold.
Contents ==
    { << >>,
      <<"a", ".", "\n", "\n", "a">>,
      <<"\n", "a", "!", " ">> }

Init ==
    /\ pc = "cd_start"
    /\ listing \in Listings
    /\ idx = 0
    /\ handles = {}
    /\ opened = << >>
    /\ doclist = << >>
    /\ heap = << >>
    /\ SplitIdle
    /\ CorpusIdle
    /\ ApiIdle

\* documents = []; os.listdir(CORPUS_DIR), which raises when the directory
\* cannot be listed.
ListDir ==
    /\ pc = "cd_start"
    /\ \E ok \in BOOLEAN :
           IF ok THEN pc' = "cd_loop" /\ UNCHANGED raised
           ELSE pc' = "cd_raised" /\ raised' = "FileNotFoundError"
    /\ UNCHANGED <<heap, documents, added, call, returned, splitVars,
                   scanVars>>

\* The for statement takes the next entry and line 142 tests its name.
NextEntry ==
    /\ pc = "cd_loop"
    /\ idx < Len(listing)
    /\ idx' = idx + 1
    /\ pc' = IF is_txt(listing[idx + 1].name) THEN "cd_open" ELSE "cd_loop"
    /\ UNCHANGED <<heap, documents, added, apiVars, splitVars, listing,
                   handles, opened, doclist>>

\* open(...): a directory cannot be opened, a file may fail to open.
OpenFile ==
    /\ pc = "cd_open"
    /\ opened' = Append(opened, idx)
    /\ \E ok \in BOOLEAN :
           /\ ok => ~listing[idx].isdir
           /\ IF ok
              THEN /\ handles' = handles \cup {idx}
                   /\ pc' = "cd_body"
                   /\ UNCHANGED raised
              ELSE /\ pc' = "cd_raised"
                   /\ raised' = "OSError"
                   /\ UNCHANGED handles
    /\ UNCHANGED <<heap, documents, added, call, returned, splitVars,
                   listing, idx, doclist>>

\* Lines 144-151 when f.read() returns: the Document is built and appended,
\* and the file is closed on leaving the with statement.
ReadFile ==
    /\ pc = "cd_body"
    /\ \E raw_text \in Contents :
           heap' = Append(heap, parse_document(listing[idx].name, raw_text))
    /\ doclist' = Append(doclist, Len(heap) + 1)
    /\ handles' = with_exit(handles, idx)
    /\ pc' = "cd_loop"
    /\ UNCHANGED <<documents, added, apiVars, splitVars, listing, idx,
                   opened>>

\* Lines 144-145 when f.read() raises: the Document of line 144 exists but
\* is not appended, and the file is closed as the exception leaves the with
\* statement.
ReadFails ==
    /\ pc = "cd_body"
    /\ heap' = Append(heap, Document(listing[idx].name))
    /\ handles' = with_exit(handles, idx)
    /\ raised' = "UnicodeDecodeError"
    /\ pc' = "cd_raised"
    /\ UNCHANGED <<documents, added, call, returned, splitVars, listing,
                   idx, opened, doclist>>

\* return documents
Return ==
    /\ pc = "cd_loop"
    /\ idx = Len(listing)
    /\ returned' = PyList(doclist)
    /\ pc' = "cd_done"
    /\ UNCHANGED <<heap, documents, added, call, raised, splitVars,
                   scanVars>>

\* corpus = compile_corpus(documents) of the main block
MainCompileCorpus ==
    /\ pc = "cd_done"
    /\ LET res == compile_corpus(heap, [i \in 1..Len(doclist) |->
                                            PyDoc(doclist[i])])
       IN  /\ documents' = res.self
           /\ added' = res.log
           /\ raised' = res.raised
    /\ pc' = "main_done"
    /\ UNCHANGED <<heap, call, returned, splitVars, scanVars>>

Next ==
    \/ ListDir
    \/ NextEntry
    \/ OpenFile
    \/ ReadFile
    \/ ReadFails
    \/ Return
    \/ MainCompileCorpus

Spec == Init /\ [][Next]_vars

----------------------------------------------------------------------------
(* C1-C3: split_sentences *)

\* The position of the last '.', '?' or '!' of s, 0 when there is none.
LastPunctPos(s) ==
    IF \E i \in 1..Len(s) : s[i] \in Punct
    THEN CHOOSE i \in 1..Len(s) :
             /\ s[i] \in Punct
             /\ \A j \in (i + 1)..Len(s) : s[j] \notin Punct
    ELSE 0

\* The fragment of s that follows the last delimiter (the last punctuation
\* mark and the whitespace run after it); s itself when s has no delimiter.
TrailingFragment(s) ==
    LET p == LastPunctPos(s)
        k == CHOOSE j \in (p + 1)..(Len(s) + 1) :
                 /\ j = Len(s) + 1 \/ s[j] \notin Whitespace
                 /\ \A m \in (p + 1)..(j - 1) : s[m] \in Whitespace
    IN  IF p = 0 THEN s ELSE SubSeq(s, k, Len(s))

NumDelims(s) == Cardinality({i \in 1..Len(s) : s[i] \in Punct})

EndsInPunct(s) == s # << >> /\ Last(s) \in Punct

\* C1: for an input ending in '.', '?' or '!', the result of split_sentences
\* does not end with an empty string (it is empty or its last element is
\* non-empty), also when the input ends in several consecutive delimiters.
C1_NoTrailingEmpty ==
    (pc = "split_done" /\ EndsInPunct(string))
        => (sentences = << >> \/ Last(sentences) # << >>)

\* C2 as stated: for a non-empty input whose last character is not '.', '?'
\* or '!', the last element of the result is the fragment that follows the
\* last delimiter, also when the input ends in whitespace after a delimiter.
C2_LastIsTrailingFragment ==
    (pc = "split_done" /\ string # << >> /\ ~EndsInPunct(string))
        => (sentences # << >> /\ Last(sentences) = TrailingFragment(string))

\* C2 amended: for a non-empty input whose last character is not '.', '?' or
\* '!', the last element of the result is the fragment that follows the last
\* delimiter when that fragment is non-empty; when it is empty (the input
\* ends in whitespace directly after a delimiter) it is dropped, and the
\* result has one element per punctuation mark of the input.
C2_LastIsNonEmptyTrailingFragment ==
    (pc = "split_done" /\ string # << >> /\ ~EndsInPunct(string))
        => IF TrailingFragment(string) # << >>
           THEN /\ sentences # << >>
                /\ Last(sentences) = TrailingFragment(string)
                /\ Len(sentences) = NumDelims(string) + 1
           ELSE Len(sentences) = NumDelims(string)

\* A delimiter with whitespace, then an unterminated fragment, which is the
\* last element returned.
C2_Witness ==
    /\ pc = "split_done"
    /\ LastPunctPos(string) > 0
    /\ LastPunctPos(string) + 1 < Len(string)
    /\ string[LastPunctPos(string) + 1] \in Whitespace
    /\ Last(string) \notin Whitespace \cup Punct
    /\ Last(sentences) = TrailingFragment(string)

\* C3 as stated: split_sentences("") returns [""].
C3_EmptyGivesOneEmpty ==
    (pc = "split_done" /\ string = << >>) => sentences = << << >> >>

\* C3 amended: split_sentences("") returns the empty list.
C3_EmptyGivesEmptyList ==
    (pc = "split_done" /\ string = << >>) => sentences = << >>

C3_Witness == pc = "split_done" /\ string = << >> /\ Len(sentences) = 0

----------------------------------------------------------------------------
(* C4, C8: Document *)

\* new is old followed by the elements of l, in order.
Extended(old, l, new) ==
    /\ Len(new) = Len(old) + Len(l)
    /\ \A i \in 1..Len(old) : new[i] = old[i]
    /\ \A i \in 1..Len(l) : new[Len(old) + i] = l[i]

\* C4: add_paragraphs (add_sentences) with a list l leaves the paragraphs
\* (sentences) equal to the old sequence followed by the elements of l in
\* order, and leaves the other sequence and the filename unchanged.
C4_AppendInOrder ==
    [][(call'.op \in {"add_paragraphs", "add_sentences"}
            /\ call'.arg.type = "list")
        => LET d == call'.self
               l == call'.arg.val
           IN  /\ raised' = "none"
               /\ heap'[d].filename = heap[d].filename
               /\ IF call'.op = "add_paragraphs"
                  THEN /\ Extended(heap[d].paragraphs, l, heap'[d].paragraphs)
                       /\ heap'[d].sentences = heap[d].sentences
                  ELSE /\ Extended(heap[d].sentences, l, heap'[d].sentences)
                       /\ heap'[d].paragraphs = heap[d].paragraphs]_vars

\* add_sentences has appended a non-empty list to a non-empty sequence while
\* the paragraphs hold something else.
C4_Witness ==
    /\ call.op = "add_sentences"
    /\ call.arg.type = "list"
    /\ raised = "none"
    /\ Len(call.arg.val) > 0
    /\ Len(heap[call.self].sentences) > Len(call.arg.val)
    /\ heap[call.self].paragraphs # << >>
    /\ heap[call.self].paragraphs # heap[call.self].sentences

\* C8: the paragraphs of a Document contain no empty string.
C8_NoEmptyParagraph ==
    \A d \in 1..Len(heap) :
        \A i \in 1..Len(heap[d].paragraphs) : heap[d].paragraphs[i] # << >>

----------------------------------------------------------------------------
(* C5-C7: Corpus *)

\* The Document of the last successful add_document(key, ...) of the log,
\* 0 when there is none.
MostRecent(log, key) ==
    IF \E i \in 1..Len(log) : log[i][1] = key
    THEN LET i == CHOOSE i \in 1..Len(log) :
                      /\ log[i][1] = key
                      /\ \A j \in (i + 1)..Len(log) : log[j][1] # key
         IN  log[i][2]
    ELSE 0

\* C5: get_document(key) returns the Document most recently added under
\* key, whatever was added under other keys since.
C5_GetReturnsMostRecent ==
    /\ \A k \in Keys :
           MostRecent(added, k) # 0
               => /\ get_document(documents, k).raised = "none"
                  /\ get_document(documents, k).returned.val
                         = <<MostRecent(added, k)>>
    /\ (call.op = "get_document" /\ MostRecent(added, call.key) # 0)
           => /\ raised = "none"
              /\ returned.type = "Document"
              /\ returned.val = <<MostRecent(added, call.key)>>

\* get_document(key) returns the second Document added under key, after an
\* add_document under another key.
C5_Witness ==
    /\ call.op = "get_document"
    /\ Len(added) = 3
    /\ added[1][1] = call.key
    /\ added[2][1] = call.key
    /\ added[3][1] # call.key
    /\ added[1][2] # added[2][2]
    /\ returned.type = "Document"
    /\ returned.val = <<added[2][2]>>

\* C6: add_document(key, x) with x not a Document raises TypeError and
\* leaves the keys, the stored Documents and the Documents themselves as
\* they were.
C6_RejectedAddChangesNothing ==
    [][(call'.op = "add_document" /\ call'.arg.type # "Document")
        => /\ raised' = "TypeError"
           /\ DOMAIN documents' = DOMAIN documents
           /\ \A k \in DOMAIN documents : documents'[k] = documents[k]
           /\ heap' = heap]_vars

\* add_document with a non-Document was rejected for a key that is present.
C6_Witness ==
    /\ call.op = "add_document"
    /\ call.arg.type # "Document"
    /\ raised = "TypeError"
    /\ call.key \in DOMAIN documents
    /\ Cardinality(DOMAIN documents) = 2

\* C7: every stored Document's filename equals the key it is stored under.
C7_FilenameIsKey ==
    \A k \in DOMAIN documents : heap[documents[k]].filename = k

----------------------------------------------------------------------------
(* C9, C10: compile_documents *)

\* The name ends in ".txt", in any mix of upper and lower case.
EndsInDotTxtAnyCase(name) ==
    /\ Len(name) >= 4
    /\ name[Len(name) - 3] = "."
    /\ name[Len(name) - 2] \in {"t", "T"}
    /\ name[Len(name) - 1] \in {"x", "X"}
    /\ name[Len(name)] \in {"t", "T"}

MatchingEntries == SelectSeq(listing, LAMBDA e : EndsInDotTxtAnyCase(e.name))

\* C9: when compile_documents returns, it returns one Document per entry
\* whose name ends in ".txt" in any case, in listing order and named after
\* the entry, and nothing else; no other entry was opened.
C9_OneDocumentPerTxtEntry ==
    returned.type = "list"
        => /\ Len(returned.val) = Len(MatchingEntries)
           /\ \A i \in 1..Len(returned.val) :
                  heap[returned.val[i]].filename = MatchingEntries[i].name
           /\ \A i, j \in 1..Len(returned.val) :
                  returned.val[i] = returned.val[j] => i = j
           /\ \A i \in 1..Len(opened) :
                  EndsInDotTxtAnyCase(listing[opened[i]].name)

\* A file with an upper-case extension was returned, after an entry that was
\* skipped, from a directory that also holds a subdirectory.
C9_Witness ==
    /\ pc = "cd_done"
    /\ returned.type = "list"
    /\ Len(listing) = 3
    /\ Len(returned.val) = 2
    /\ ~EndsInDotTxtAnyCase(listing[1].name)
    /\ \E i \in 1..Len(listing) : listing[i].isdir
    /\ heap[returned.val[1]].filename = FileB
    /\ heap[returned.val[2]].filename = FileA

\* C10: when opening or reading a matching file fails, the scan has stopped
\* at that file: it was the last file opened, nothing is returned, no corpus
\* is built and no file is left open.
C10_FailureStopsScan ==
    raised \in {"OSError", "UnicodeDecodeError"}
        => /\ pc = "cd_raised"
           /\ returned = NoValue
           /\ documents = EmptyDict
           /\ handles = {}
           /\ opened # << >>
           /\ Last(opened) = idx
           /\ \A i \in 1..Len(opened) : opened[i] <= idx

\* Reading the second matching file failed after the first was parsed, with
\* a matching file still to come.
C10_Witness ==
    /\ raised = "UnicodeDecodeError"
    /\ Len(doclist) = 1
    /\ Len(opened) = 2
    /\ idx < Len(listing)
    /\ EndsInDotTxtAnyCase(listing[idx + 1].name)
    /\ handles = {}

====
